---- MODULE Spec2Model ----
(***************************************************************************)
(* Hybrid retrieval engine of tjm15/demo: the embedder                     *)
(* (apps/kernel/modules/embedding.py, apps/kernel/embedding.py), the       *)
(* chunker (scripts/embed_evidence_chunks.py), the retriever               *)
(* (apps/kernel/services/retriever.py), policy and precedent search        *)
(* (apps/kernel/services/policy.py, precedent.py) and the dependency graph *)
(* and gap report over the evidence links (apps/kernel/services/           *)
(* evidence.py), and the synthesiser (apps/kernel/services/synthesise.py). *)
(*                                                                         *)
(* Floats are modelled exactly: a vector is a record [kind, num, den2]     *)
(* standing for the list num[i] / sqrt(den2).  Provider and local-model    *)
(* vectors are fixed point with scale 5 (den2 = 25), so <<3, 4>> has L2    *)
(* norm 1.                                                                 *)
(***************************************************************************)
EXTENDS Integers, Sequences, FiniteSets, TLC

\* ------------------------------------------------------------------ bounds
\* EMBED_DIM scaled down (1024 in the deployment)
DimTarget == 3
\* words per text handed to the embedder
MaxTokens == 1
\* calls per behaviour
MaxCalls == 2
\* characters of the raw text handed to _chunk_text
MaxLen == 7
\* largest target_len tried; overlap ranges over 0..target_len-1
MaxTarget == 6
\* largest top_k asked of retrieve (the schema allows 1..100)
MaxTopK == 2
\* largest lexical rank of a scored candidate, in tenths
MaxRank == 3
\* rows of table policy
MaxPolicies == 3
\* rows of table evidence_policy_link
MaxLinks == 2
\* words of a text handed to _classify_constraint
MaxWords == 3

\* ------------------------------------------------------------- the embedder
VARIABLES
    provider,    \* _EMBED_PROVIDER, read once per process
    hashseed,    \* the per-process hash randomisation of the interpreter
    MODEL,       \* modules/embedding.py _MODEL
    modelCache,  \* the lru_cache(maxsize=1) of embedding.py _get_model
    loads,       \* SentenceTransformer(...) constructions done by _load_model
    cacheLoads,  \* SentenceTransformer(...) constructions done by _get_model
    handles,     \* handles on which this process has called encode
    loadedAt,    \* number of the call in which _load_model built _MODEL, 0 if none
    pc,          \* position of the running call
    fn,          \* function the running call executes
    text,        \* its argument
    result,      \* its return value, or the exception it let through
    tiers,       \* tiers entered by the running call, in order
    calls,       \* calls so far
    hashSeen     \* text -> <<hashseed, result>> of each hash-fallback run on it

evars == <<provider, hashseed, MODEL, modelCache, loads, cacheLoads, handles, loadedAt,
           pc, fn, text, result, tiers, calls, hashSeen>>

VARIABLES
    cpc,         \* position inside _chunk_text; "diverged": in a loop it cannot leave
    raw,         \* the argument text
    ctext,       \* text after _normalize_ws
    target_len,
    overlap,
    start,       \* the loop variable
    chunks,      \* the local list, then the returned list
    iters        \* one record per loop iteration: start, window end, end, chunk

cvars == <<cpc, raw, ctext, target_len, overlap, start, chunks, iters>>

VARIABLES
    rpc,         \* position inside retrieve
    req,         \* the RetrieveRequest
    desig_tags,  \* result of _spatial_tags
    rchunks,     \* the local list chunks of retrieve
    failed,      \* collaborators that failed while this request was served
    issued,      \* statements this request has sent to the database, in order
    response     \* the RetrieveResponse, or the exception retrieve let through

rvars == <<rpc, req, desig_tags, rchunks, failed, issued, response>>

VARIABLES
    spc,         \* position inside search_policies / search_precedents
    sreq,        \* the search request and the endpoint it went to
    shits,       \* the local list hits (rows in search_precedents)
    sfailed,     \* what failed while this search was served
    sissued,     \* statements this search has sent to the database, in order
    sresponse    \* the returned list, or the exception the endpoint let through

svars == <<spc, sreq, shits, sfailed, sissued, sresponse>>

VARIABLES
    cand,        \* the candidate scored last: components and fused scores
    prev         \* the candidate scored before it

kvars == <<cand, prev>>

VARIABLES
    policy,          \* table policy: the ids of its rows
    links,           \* table evidence_policy_link: [evidence_id, policy_id, strength]
    fixture,         \* the policies of policy_graph.json, <<>> when the file is missing
    gcall,           \* the last graph call: arguments, rows fetched, nodes, edges
    gprev,           \* what the call before it returned, if it had the same
                     \* arguments and no table or file has changed since
    gpc,             \* position inside evidence_gaps
    no_evidence,     \* the three lists of evidence_gaps
    stale_evidence,
    weak_links,
    gchanged,        \* a table was written since the first query of this evidence_gaps
    glinked          \* policies first linked between the queries of this evidence_gaps

gvars == <<policy, links, fixture, gcall, gprev, gpc, no_evidence, stale_evidence,
           weak_links, gchanged, glinked>>

VARIABLES
    ypc,             \* "idle", or "done" while a result is being handed back
    classified,      \* the last _classify_constraint call: its text and its result
    synreq,          \* the SynthesiseRequest being served
    ret,             \* what retriever_endpoint returned to synthesise
    constraints,     \* the constraint list after de-duplication, before [: top_k]
    synresponse      \* the SynthesiseResponse

yvars == <<ypc, classified, synreq, ret, constraints, synresponse>>

\* the components outside the embedder, the chunker and retrieve
xvars == <<svars, kvars, gvars, yvars>>

Texts == UNION {[1..n -> {"A", "b"}] : n \in 0..MaxTokens}

\* squared scale of the fixed-point provider and model vectors
Scale2 == 5 * 5

NoVec == [kind |-> "none", num |-> <<>>, den2 |-> 1]

Raised == [kind |-> "raise", num |-> <<>>, den2 |-> 1]

Vec(num, den2) == [kind |-> "vec", num |-> num, den2 |-> den2]

NoModel == [id |-> 0, dim |-> 0]

RECURSIVE SumSq(_)
SumSq(s) == IF s = <<>> THEN 0 ELSE Head(s) * Head(s) + SumSq(Tail(s))

\* a vector of length n with x at position 1, y at position n
Ends(n, x, y) == [i \in 1..n |-> IF i = n THEN y ELSE IF i = 1 THEN x ELSE 0]

\* what the remote provider can put in data["embedding"]
ProviderVecs ==
    { <<>>, <<5>>, <<3, 4>>, <<5, 5>>,
      Ends(DimTarget, 3, 4), Ends(DimTarget + 1, 3, 4), Ends(DimTarget + 1, 5, 0) }

\* native dimensions of the local sentence-transformers model
NativeDims == {DimTarget - 1, DimTarget, DimTarget + 1}

\* model.encode(..., normalize_embeddings=True): unit vectors of the native dimension
EncodeVecs(dim) == { Ends(dim, 3, 4), Ends(dim, 5, 0), Ends(dim, 0, 5) }

_pad_or_truncate_nopad(vec, dim) ==
    IF Len(vec) > dim THEN SubSeq(vec, 1, dim) ELSE vec

_pad_or_truncate(vec, dim) ==
    IF Len(vec) = dim THEN vec
    ELSE IF Len(vec) > dim THEN SubSeq(vec, 1, dim)
    ELSE vec \o [i \in 1..(dim - Len(vec)) |-> 0]

Lower(tok) == IF tok = "A" THEN "a" ELSE IF tok = "Must" THEN "must" ELSE tok

\* hashlib.sha256(tok).digest(), scaled down to 8 bytes of 2 bits
DigestLen == 8

ByteBase == 4

DigestSalted(tok) ==
    LET d == IF tok = "a" THEN <<1, 2, 0, 3, 2, 2, 1, 0>> ELSE <<3, 0, 1, 1, 0, 1, 2, 3>>
    IN  [i \in 1..DigestLen |-> (d[i] + hashseed) % ByteBase]

Digest(tok) ==
    IF tok = "a" THEN <<1, 2, 0, 3, 2, 2, 1, 0>> ELSE <<3, 0, 1, 1, 0, 1, 2, 3>>

\* int.from_bytes(h[i:i+4], 'little')
FromBytes(h, i) ==
    h[i] + ByteBase * h[i+1] + ByteBase * ByteBase * h[i+2]
         + ByteBase * ByteBase * ByteBase * h[i+3]

\* 2 * (2^32 - 1) * (val - 0.5), for 4 bytes of 2 bits
Contribution(h, i) == 2 * FromBytes(h, i) - (ByteBase * ByteBase * ByteBase * ByteBase - 1)

Windows == { i \in 1..DigestLen : (i - 1) % 4 = 0 }

RECURSIVE AddWindows(_, _, _)
AddWindows(out, h, ws) ==
    IF ws = {} THEN out
    ELSE LET i   == CHOOSE w \in ws : \A v \in ws : w <= v
             idx == ((h[i] + h[i+1]) % DimTarget) + 1
         IN  AddWindows([out EXCEPT ![idx] = @ + Contribution(h, i)], h, ws \ {i})

RECURSIVE Accumulate(_, _)
Accumulate(out, toks) ==
    IF toks = <<>> THEN out
    ELSE Accumulate(AddWindows(out, Digest(Lower(Head(toks))), Windows), Tail(toks))

\* lines 89-103: accumulate, then divide by (norm or 1.0)
HashFallback(t) ==
    LET out == Accumulate([i \in 1..DimTarget |-> 0], t)
        n2  == SumSq(out)
    IN  Vec(out, IF n2 = 0 THEN 1 ELSE n2)

EInit ==
    /\ provider \in {"ollama", "other"}
    /\ hashseed = 0
    /\ MODEL = NoModel
    /\ modelCache = NoModel
    /\ loads = 0
    /\ cacheLoads = 0
    /\ handles = {}
    /\ loadedAt = 0
    /\ pc = "idle"
    /\ fn = "none"
    /\ text = <<>>
    /\ result = NoVec
    /\ tiers = <<>>
    /\ calls = 0
    /\ hashSeen = [t \in Texts |-> {}]

\* a new interpreter process, after the previous one has served a call:
\* module globals and caches start afresh
Restart ==
    /\ pc = "done"
    /\ calls < MaxCalls
    /\ calls' = calls
    /\ provider' \in {"ollama", "other"}
    /\ hashseed' \in 0..1
    /\ MODEL' = NoModel
    /\ modelCache' = NoModel
    /\ loads' = 0
    /\ cacheLoads' = 0
    /\ handles' = {}
    /\ loadedAt' = 0
    /\ pc' = "idle"
    /\ fn' = "none"
    /\ text' = <<>>
    /\ result' = NoVec
    /\ tiers' = <<>>
    /\ UNCHANGED hashSeen
    /\ UNCHANGED <<cvars, rvars, xvars>>

\* get_embedding(text) is entered; line 48 selects the first tier
FirstTierLocal(prov) == "local"

\* line 48: the provider tier is entered only when _EMBED_PROVIDER is "ollama"
FirstTier(prov) == IF prov = "ollama" THEN "remote" ELSE "local"

GetEmbeddingCall ==
    /\ pc \in {"idle", "done"}
    /\ calls < MaxCalls
    /\ calls' = calls + 1
    /\ \E t \in Texts : text' = t
    /\ fn' = "get_embedding"
    /\ result' = NoVec
    /\ tiers' = <<>>
    /\ pc' = FirstTier(provider)
    /\ UNCHANGED <<provider, hashseed, MODEL, modelCache, loads, cacheLoads, handles,
                   loadedAt, hashSeen>>
    /\ UNCHANGED <<cvars, rvars, xvars>>

RemoteExceptPropagates(r) == [pc |-> "done", result |-> Raised]

\* lines 76-78: except Exception around the provider call, then fall through
RemoteExcept(r) == [pc |-> "local", result |-> r]

EncodeExceptPropagates(r) == [pc |-> "done", result |-> Raised]

\* lines 86-87: except Exception around model.encode, then fall through
EncodeExcept(r) == [pc |-> "hash", result |-> r]

\* get_embedding was called from a coroutine of the API (retrieve,
\* search_policies, search_precedents): the event loop is running
InCoroutine == rpc = "embedding" \/ spc = "embedding"

\* lines 49-78: the provider call; a timeout is an exception like any other.
\* Called from a coroutine, loop.run_until_complete (line 73)
\* raises because the event loop is already running.
RemoteTier ==
    /\ pc = "remote"
    /\ fn = "get_embedding"
    /\ tiers' = Append(tiers, "remote")
    /\ \/ /\ ~InCoroutine
          /\ \E v \in ProviderVecs :
               IF v # <<>>
               THEN /\ result' = Vec(_pad_or_truncate(v, DimTarget), Scale2)
                    /\ pc' = "done"
               ELSE /\ result' = result
                    /\ pc' = "local"
       \/ \E failure \in {"exception", "timeout", "loop_running"} :
            /\ failure = "loop_running" <=> InCoroutine
            /\ result' = RemoteExcept(result).result
            /\ pc' = RemoteExcept(result).pc
    /\ UNCHANGED <<provider, hashseed, MODEL, modelCache, loads, cacheLoads, handles,
                   loadedAt, fn, text, calls, hashSeen>>
    /\ UNCHANGED <<cvars, rvars, xvars>>

_load_model_reload(loadable, dim) ==
    IF loadable THEN [id |-> loads + 1, dim |-> dim] ELSE NoModel

\* lines 16-26: the value of _MODEL after _load_model()
_load_model(loadable, dim) ==
    IF MODEL # NoModel THEN MODEL
    ELSE IF loadable THEN [id |-> loads + 1, dim |-> dim]
    ELSE NoModel

\* lines 81-87: _load_model(), then encode under try/except
LocalTier ==
    /\ pc = "local"
    /\ fn = "get_embedding"
    /\ tiers' = Append(tiers, "local")
    /\ \E loadable \in BOOLEAN, dim \in NativeDims :
         LET m == _load_model(loadable, dim) IN
         /\ MODEL' = m
         /\ loads' = IF m # MODEL /\ m # NoModel THEN loads + 1 ELSE loads
         /\ loadedAt' = IF m # MODEL /\ m # NoModel THEN calls ELSE loadedAt
         /\ IF m = NoModel
            THEN /\ pc' = "hash"
                 /\ UNCHANGED <<result, handles>>
            ELSE /\ handles' = handles \cup {m.id}
                 /\ \/ \E v \in EncodeVecs(m.dim) :
                          /\ result' = Vec(_pad_or_truncate(v, DimTarget), Scale2)
                          /\ pc' = "done"
                    \/ /\ result' = EncodeExcept(result).result
                       /\ pc' = EncodeExcept(result).pc
    /\ UNCHANGED <<provider, hashseed, modelCache, cacheLoads, fn, text, calls, hashSeen>>
    /\ UNCHANGED <<cvars, rvars, xvars>>

\* lines 89-103: the deterministic fallback
HashTier ==
    /\ pc = "hash"
    /\ fn = "get_embedding"
    /\ tiers' = Append(tiers, "hash")
    /\ result' = HashFallback(text)
    /\ hashSeen' = [hashSeen EXCEPT ![text] = @ \cup {<<hashseed, HashFallback(text)>>}]
    /\ pc' = "done"
    /\ UNCHANGED <<provider, hashseed, MODEL, modelCache, loads, cacheLoads, handles,
                   loadedAt, fn, text, calls>>
    /\ UNCHANGED <<cvars, rvars, xvars>>

\* embedding.py lines 11-14: lru_cache keeps a returned model, not an exception
_get_model(loadable, dim) ==
    IF modelCache # NoModel THEN modelCache
    ELSE IF loadable THEN [id |-> cacheLoads + 1, dim |-> dim]
    ELSE NoModel

\* embedding.py lines 24-27: no handler around the load or the encode
embed ==
    /\ pc \in {"idle", "done"}
    /\ calls < MaxCalls
    /\ calls' = calls + 1
    /\ fn' = "embed"
    /\ tiers' = <<"local">>
    /\ pc' = "done"
    /\ \E t \in Texts, loadable \in BOOLEAN, dim \in NativeDims :
         LET m == _get_model(loadable, dim) IN
         /\ text' = t
         /\ modelCache' = m
         /\ cacheLoads' = IF m # modelCache /\ m # NoModel THEN cacheLoads + 1 ELSE cacheLoads
         /\ IF m = NoModel
            THEN result' = Raised
            ELSE \/ \E v \in EncodeVecs(m.dim) :
                        result' = Vec(_pad_or_truncate(v, DimTarget), Scale2)
                 \/ result' = Raised
    /\ UNCHANGED <<provider, hashseed, MODEL, loads, handles, loadedAt, hashSeen>>
    /\ UNCHANGED <<cvars, rvars, xvars>>

ENext == Restart \/ GetEmbeddingCall \/ RemoteTier \/ LocalTier \/ HashTier \/ embed

\* -------------------------------------------------------------- the chunker
RawTexts == UNION {[1..n -> {"a", ".", " "}] : n \in 0..MaxLen}

Min(a, b) == IF a <= b THEN a ELSE b

Max(a, b) == IF a >= b THEN a ELSE b

RECURSIVE LStrip(_)
LStrip(s) == IF s # <<>> /\ Head(s) = " " THEN LStrip(Tail(s)) ELSE s

RECURSIVE RStrip(_)
RStrip(s) ==
    IF s # <<>> /\ s[Len(s)] = " " THEN RStrip(SubSeq(s, 1, Len(s) - 1)) ELSE s

\* str.strip()
Strip(s) == RStrip(LStrip(s))

RECURSIVE Collapse(_)
Collapse(s) ==
    IF Len(s) <= 1 THEN s
    ELSE IF s[1] = " " /\ s[2] = " " THEN Collapse(Tail(s))
    ELSE <<s[1]>> \o Collapse(Tail(s))

\* re.sub(r"\s+", " ", text.strip())
_normalize_ws(s) == Collapse(Strip(s))

\* s[a:b] with Python's treatment of negative and out-of-range indices
Slice(s, a, b) ==
    LET lo == IF a < 0 THEN Max(0, Len(s) + a) ELSE Min(a, Len(s))
        hi == IF b < 0 THEN Max(0, Len(s) + b) ELSE Min(b, Len(s))
    IN  IF hi <= lo THEN <<>> ELSE SubSeq(s, lo + 1, hi)

FindFirst(s) ==
    IF \E i \in 1..Len(s) : s[i] = "."
    THEN (CHOOSE i \in 1..Len(s) : s[i] = "." /\ \A j \in 1..(i-1) : s[j] # ".") - 1
    ELSE -1

\* sub.rfind('.'): 0-based index of the last period, -1 when there is none
RFind(s) ==
    IF \E i \in 1..Len(s) : s[i] = "."
    THEN (CHOOSE i \in 1..Len(s) : s[i] = "." /\ \A j \in (i+1)..Len(s) : s[j] # ".") - 1
    ELSE -1

\* last_period > target_len * 0.4
PastThreshold(last_period, tl) == 5 * last_period > 2 * tl

FitsStrict(t, tl) == Len(t) < tl

\* line 54: len(text) <= target_len
Fits(t, tl) == Len(t) <= tl

\* line 72: [c for c in (s.strip() for s in chunks) if c]
DropEmpty(cs) == SelectSeq([i \in 1..Len(cs) |-> Strip(cs[i])], LAMBDA c : c # <<>>)

\* the loop's only state is start: an iteration that leads back to a start it
\* has already had repeats for ever, appending to chunks until memory runs out
Repeats(its, s) == \E k \in 1..Len(its) : its[k].start = s

CInit ==
    /\ cpc = "idle"
    /\ raw = <<>>
    /\ ctext = <<>>
    /\ target_len = 1
    /\ overlap = 0
    /\ start = 0
    /\ chunks = <<>>
    /\ iters = <<>>

\* lines 50-59: normalise, the two early returns, loop set-up
ChunkCall ==
    /\ cpc = "idle"
    /\ \E r \in RawTexts, tl \in 1..MaxTarget :
       \E ov \in 0..(tl - 1) :
         LET t == _normalize_ws(r) IN
         /\ raw' = r
         /\ ctext' = t
         /\ target_len' = tl
         /\ overlap' = ov
         /\ start' = 0
         /\ iters' = <<>>
         /\ IF t = <<>>
            THEN chunks' = <<>> /\ cpc' = "done"
            ELSE IF Fits(t, tl)
            THEN chunks' = <<t>> /\ cpc' = "done"
            ELSE chunks' = <<>> /\ cpc' = "loop"
    /\ UNCHANGED <<evars, rvars, xvars>>

\* lines 60-72: one iteration of the while loop, and the return that follows it
ChunkStep ==
    /\ cpc = "loop"
    /\ IF start < Len(ctext)
       THEN LET wend == Min(Len(ctext), start + target_len)
                win  == Slice(ctext, start, wend)
                lp   == RFind(win)
                snap == PastThreshold(lp, target_len)
                end  == IF snap THEN start + lp + 1 ELSE wend
                sub  == IF snap THEN Slice(ctext, start, end) ELSE win
                all  == Append(chunks, Strip(sub))
                its  == Append(iters, [start |-> start, wend |-> wend,
                                       end |-> end, chunk |-> Strip(sub)])
            IN  /\ iters' = its
                /\ IF end >= Len(ctext)
                   THEN /\ chunks' = DropEmpty(all)
                        /\ cpc' = "done"
                        /\ start' = start
                   ELSE /\ chunks' = all
                        /\ cpc' = IF Repeats(its, end - overlap) THEN "diverged" ELSE "loop"
                        /\ start' = end - overlap
       ELSE /\ chunks' = DropEmpty(chunks)
            /\ cpc' = "done"
            /\ UNCHANGED <<start, iters>>
    /\ UNCHANGED <<raw, ctext, target_len, overlap>>
    /\ UNCHANGED <<evars, rvars, xvars>>

CNext == ChunkCall \/ ChunkStep

\* ------------------------------------------------------------ the retriever
\* SQL NULL in a numeric column
Null == -1

\* SQL NULL in policy_para.text
NullText == <<"NULL">>

\* question.strip().split(): <<>> is a question of white space only
Questions == { q \in Texts : Len(q) <= 1 }

\* a designation "<layer_type>:<name>" is <<layer_type, name>>
Tag(layer, name) == <<layer, name>>

\* what the intersection query of _spatial_tags can return
TagLists ==
    { <<>>,
      << Tag("designation", "A") >>,
      << Tag("designation", "A"), Tag("conservation", "b"),
         Tag("flood", "A"), Tag("article4", "b") >> }

\* a policy id "H1" or "H1.2" is <<document, suffix>>, suffix 0 for none
Row(rid, doc, suffix, txt, bm25, sim) ==
    [rid |-> rid, policy_id |-> <<doc, suffix>>, text |-> txt, bm25 |-> bm25, sim |-> sim]

\* policy_para as the hybrid query sees it: ts_rank_cd and 1 - distance in
\* tenths, Null for SQL NULL (a paragraph without embedding has no sim)
DbTables ==
    { <<>>,
      << Row(1, 1, 0, <<"A">>, 5, 8), Row(2, 2, 1, <<"b">>, 0, 9),
         Row(3, 1, 1, <<"A", "b">>, 20, Null) >>,
      << Row(1, 1, 0, <<"c">>, 4, 5), Row(2, 2, 0, <<"A", "b">>, 4, 5),
         Row(3, 3, 0, <<"c">>, 0, Null) >>,
      << Row(1, 1, 0, <<"b">>, 9, 9), Row(2, 2, 0, NullText, 6, 6),
         Row(3, 3, 0, <<"A">>, 3, 3) >> }

\* a line of policy_paras.jsonl: a record, or text that json.loads rejects
Line(doc, para, txt) == [json |-> TRUE, doc_id |-> doc, para_ref |-> para, text |-> txt]

\* the snapshot file, when it exists; doc_id 0 is a record without doc_id
SnapshotFiles ==
    { <<>>,
      << Line(1, 1, <<"A", "b">>),
         [json |-> FALSE, doc_id |-> 0, para_ref |-> 0, text |-> <<>>],
         Line(2, 1, <<"c">>), Line(0, 2, <<"b">>) >>,
      << Line(3, 1, <<>>), Line(1, 2, <<"c", "b">>), Line(2, 2, <<"a">>) >> }

Policy(id, refs, refby) == [id |-> id, references |-> refs, referenced_by |-> refby]

\* policy_graph.json, when it exists and parses
GraphFixture ==
    << Policy(1, <<2, 3>>, <<>>), Policy(2, <<>>, <<1>>), Policy(0, <<1>>, <<>>),
       Policy(3, <<2>>, <<1>>) >>

NoResponse == [kind |-> "none", chunks |-> <<>>, graph |-> [nodes |-> <<>>, edges |-> <<>>],
               designations |-> <<>>]

RaisedResponse == [kind |-> "raise", chunks |-> <<>>, graph |-> [nodes |-> <<>>, edges |-> <<>>],
                   designations |-> <<>>]

RetrieveResponse(cs, g, tags) ==
    [kind |-> "ok", chunks |-> cs, graph |-> g, designations |-> tags]

Range(f) == { f[i] : i \in DOMAIN f }

LowerAll(toks) == [i \in 1..Len(toks) |-> Lower(toks[i])]

\* line 127: sum(1 for t in desig_tags if t.split(":")[-1].lower() in low)
Hits(tags, txt) ==
    Cardinality({ i \in 1..Len(tags) : Lower(tags[i][2]) \in Range(LowerAll(txt)) })

\* 30 * min(1.0, hits / 3.0), 0 without designations
TagOverlap(tags, txt) == IF tags = <<>> THEN 0 ELSE 10 * Min(3, Hits(tags, txt))

OrZero(x) == IF x = Null THEN 0 ELSE x

_score_formula_distance(bm25, sim, tag_overlap) == 15 * bm25 + 12 * (10 - sim) + tag_overlap

\* lines 89-90, in units of 1/300: bm25 and sim come in tenths
_score_formula(bm25, sim, tag_overlap) == 15 * bm25 + 12 * sim + tag_overlap

\* the ORDER BY expression of the hybrid query, in units of 1/300
SqlScore(r) == 15 * OrZero(r.bm25) + 12 * OrZero(r.sim)

\* WHERE tsv @@ query OR embedding IS NOT NULL
SqlWhere(r) == (r.bm25 # Null /\ r.bm25 > 0) \/ r.sim # Null

\* SELECT ... WHERE ... ORDER BY ... DESC LIMIT limit: the rows whose index
\* is in match, in any order that is non-increasing in key (the ORDER BY
\* value of each row), cut at LIMIT
Ranked(table, match, key, limit) ==
    LET n     == Cardinality(match)
        perms == { p \in [1..n -> match] :
                     /\ \A i, j \in 1..n : i # j => p[i] # p[j]
                     /\ \A i \in 1..(n - 1) : key[p[i]] >= key[p[i+1]] }
    IN  { [i \in 1..Min(n, limit) |-> table[p[i]]] : p \in perms }

\* the results the hybrid query of retrieve may return
HybridResults(table, limit) ==
    Ranked(table, { i \in DOMAIN table : SqlWhere(table[i]) },
           [i \in DOMAIN table |-> SqlScore(table[i])], limit)

First(tags, n) == SubSeq(tags, 1, Min(n, Len(tags)))

\* lines 123-141: the ChunkItem of one row
DbChunk(r, tags) ==
    [chunk_id |-> <<"para", r.rid>>, policy_id |-> r.policy_id, text |-> r.text,
     score |-> _score_formula(OrZero(r.bm25), OrZero(r.sim), TagOverlap(tags, r.text)),
     bm25 |-> OrZero(r.bm25), sim |-> OrZero(r.sim), tags |-> First(tags, 10)]

\* the rows before the first one whose text is NULL (text.lower() raises there)
GoodPrefix(rows) ==
    LET bad == { i \in 1..Len(rows) : rows[i].text = NullText }
    IN  IF bad = {} THEN rows
        ELSE SubSeq(rows, 1, (CHOOSE i \in bad : \A j \in bad : i <= j) - 1)

\* line 154: any(tok in text.lower() for tok in q.lower().split()), times ten
TokenMatch(q, txt) ==
    IF \E i \in 1..Len(q) : Lower(q[i]) \in Range(LowerAll(txt)) THEN 10 ELSE 0

\* lines 151-172: the ChunkItem of one snapshot record
FixtureChunk(rec, q, tags) ==
    [chunk_id |-> <<"snapshot", rec.doc_id, rec.para_ref>>, policy_id |-> <<rec.doc_id, 0>>,
     text |-> rec.text,
     score |-> _score_formula(TokenMatch(q, rec.text), TokenMatch(q, rec.text),
                              TagOverlap(tags, rec.text)),
     bm25 |-> TokenMatch(q, rec.text), sim |-> TokenMatch(q, rec.text),
     tags |-> First(tags, 10)]

RECURSIVE FixtureChunks(_, _, _)
\* lines 146-172: lines that do not parse and records without text are skipped
FixtureChunks(lines, q, tags) ==
    IF lines = <<>> THEN <<>>
    ELSE IF ~Head(lines).json \/ Head(lines).text = <<>>
    THEN FixtureChunks(Tail(lines), q, tags)
    ELSE <<FixtureChunk(Head(lines), q, tags)>> \o FixtureChunks(Tail(lines), q, tags)

RECURSIVE InsertDesc(_, _)
InsertDesc(sorted, c) ==
    IF sorted = <<>> THEN <<c>>
    ELSE IF Head(sorted).score >= c.score THEN <<Head(sorted)>> \o InsertDesc(Tail(sorted), c)
    ELSE <<c>> \o sorted

RECURSIVE SortDesc(_)
\* line 174: chunks.sort(key=score, reverse=True), a stable sort
SortDesc(cs) ==
    IF cs = <<>> THEN <<>>
    ELSE InsertDesc(SortDesc(SubSeq(cs, 1, Len(cs) - 1)), cs[Len(cs)])

RECURSIVE SortedSeq(_)
\* sorted(nodes)
SortedSeq(S) ==
    IF S = {} THEN <<>>
    ELSE LET m == CHOOSE x \in S : \A y \in S : x <= y
         IN  <<m>> \o SortedSeq(S \ {m})

Edge(src, dst) == [src |-> src, dst |-> dst, relation |-> "reference"]

RECURSIVE GraphEdges(_, _)
\* lines 44-55: the edges, in file order
GraphEdges(policies, wanted) ==
    IF policies = <<>> THEN <<>>
    ELSE LET p == Head(policies) IN
         (IF p.id # 0 /\ p.id \in wanted
          THEN [i \in 1..Len(p.references) |-> Edge(p.id, p.references[i])]
               \o [i \in 1..Len(p.referenced_by) |-> Edge(p.referenced_by[i], p.id)]
          ELSE <<>>) \o GraphEdges(Tail(policies), wanted)

\* lines 36-56; policies is <<>> when the file is missing or does not parse
_kg_neighbors(policy_ids, policies) ==
    LET wanted == { policy_ids[i][1] : i \in 1..Len(policy_ids) }
        hit    == { i \in 1..Len(policies) : policies[i].id # 0 /\ policies[i].id \in wanted }
        nodes  == UNION { {policies[i].id} \cup Range(policies[i].references)
                            \cup Range(policies[i].referenced_by) : i \in hit }
    IN  [nodes |-> SortedSeq(nodes), edges |-> GraphEdges(policies, wanted)]

\* line 178: [c.policy_id for c in chunks if c.policy_id]
TopPolicyIds(cs) ==
    LET ids == [i \in 1..Len(cs) |-> cs[i].policy_id]
    IN  SelectSeq(ids, LAMBDA p : p[1] # 0)

RInit ==
    /\ rpc = "idle"
    /\ req = [question |-> <<>>, site_geom |-> FALSE, top_k |-> 1]
    /\ desig_tags = <<>>
    /\ rchunks = <<>>
    /\ failed = {}
    /\ issued = <<>>
    /\ response = NoResponse

\* lines 94-97: a validated request arrives; a blank question is answered at once
RetrieveCall ==
    /\ rpc \in {"idle", "done"}
    /\ pc \in {"idle", "done"}
    /\ calls < MaxCalls
    /\ \E q \in Questions, g \in BOOLEAN, k \in 1..MaxTopK :
         /\ req' = [question |-> q, site_geom |-> g, top_k |-> k]
         /\ IF q = <<>>
            THEN /\ response' = RetrieveResponse(<<>>, [nodes |-> <<>>, edges |-> <<>>], <<>>)
                 /\ rpc' = "done"
            ELSE /\ response' = NoResponse
                 /\ rpc' = "spatial"
    /\ desig_tags' = <<>>
    /\ rchunks' = <<>>
    /\ failed' = {}
    /\ issued' = <<>>
    /\ UNCHANGED <<evars, cvars, xvars>>

SpatialExceptPropagates(tags) == [rpc |-> "done", tags |-> tags, response |-> RaisedResponse]

\* lines 83-85: except Exception in _spatial_tags
SpatialExcept(tags) == [rpc |-> "embed", tags |-> <<>>, response |-> NoResponse]

\* lines 59-86 and 100: _spatial_tags
SpatialTags ==
    /\ rpc = "spatial"
    /\ IF ~req.site_geom
       THEN /\ desig_tags' = <<>>
            /\ rpc' = "embed"
            /\ UNCHANGED <<failed, issued, response>>
       ELSE \/ \E tags \in TagLists :
                 /\ desig_tags' = tags
                 /\ rpc' = "embed"
                 /\ issued' = Append(issued, "spatial")
                 /\ UNCHANGED <<failed, response>>
            \/ \E why \in {"connection", "reprojection", "intersection"} :
                 /\ desig_tags' = SpatialExcept(desig_tags).tags
                 /\ rpc' = SpatialExcept(desig_tags).rpc
                 /\ response' = SpatialExcept(desig_tags).response
                 /\ issued' = IF why = "connection" THEN issued
                              ELSE Append(issued, "spatial")
                 /\ failed' = failed \cup {"spatial"}
    /\ UNCHANGED <<req, rchunks, evars, cvars, xvars>>

\* line 103: get_embedding(q) is entered
RetrieveEmbed ==
    /\ rpc = "embed"
    /\ pc \in {"idle", "done"}
    /\ calls' = calls + 1
    /\ text' = req.question
    /\ fn' = "get_embedding"
    /\ result' = NoVec
    /\ tiers' = <<>>
    /\ pc' = FirstTier(provider)
    /\ rpc' = "embedding"
    /\ UNCHANGED <<provider, hashseed, MODEL, modelCache, loads, cacheLoads, handles,
                   loadedAt, hashSeen>>
    /\ UNCHANGED <<req, desig_tags, rchunks, failed, issued, response, cvars, xvars>>

\* line 103: get_embedding(q) has returned, or has let an exception through
RetrieveEmbedded ==
    /\ rpc = "embedding"
    /\ pc = "done"
    /\ IF result.kind = "vec"
       THEN rpc' = "db" /\ response' = response
       ELSE rpc' = "done" /\ response' = RaisedResponse
    /\ failed' = failed \cup (IF "hash" \in Range(tiers) THEN {"embedding"} ELSE {})
    /\ UNCHANGED <<req, desig_tags, rchunks, issued, evars, cvars, xvars>>

DbExceptPropagates(partial) == [rpc |-> "done", chunks |-> partial, response |-> RaisedResponse]

\* line 142: except Exception around the hybrid search; chunks keeps what the
\* loop had appended
DbExcept(partial) == [rpc |-> "fixture", chunks |-> partial, response |-> NoResponse]

\* lines 105-141: the DB-backed hybrid search
DbTier ==
    /\ rpc = "db"
    /\ \/ \E why \in {"db_client", "db_connection", "vector_extension"} :
            /\ rchunks' = DbExcept(rchunks).chunks
            /\ rpc' = DbExcept(rchunks).rpc
            /\ response' = DbExcept(rchunks).response
            /\ failed' = failed \cup {why}
            /\ issued' = IF why = "vector_extension" THEN Append(issued, "hybrid")
                         ELSE issued
       \/ \E table \in DbTables :
          \E rows \in HybridResults(table, req.top_k) :
            LET good == GoodPrefix(rows)
                made == rchunks \o [i \in 1..Len(good) |-> DbChunk(good[i], desig_tags)]
            IN  /\ issued' = Append(issued, "hybrid")
                /\ IF Len(good) = Len(rows)
                   THEN /\ rchunks' = made
                        /\ rpc' = "graph"
                        /\ UNCHANGED <<failed, response>>
                   ELSE /\ rchunks' = DbExcept(made).chunks
                        /\ rpc' = DbExcept(made).rpc
                        /\ response' = DbExcept(made).response
                        /\ failed' = failed \cup {"row"}
    /\ UNCHANGED <<req, desig_tags, evars, cvars, xvars>>

TrimNone(cs, k) == cs

\* line 175: chunks[: req.top_k]
Trim(cs, k) == SubSeq(cs, 1, Min(k, Len(cs)))

\* lines 143-175: scan of the snapshot, then sort and trim
FixtureTier ==
    /\ rpc = "fixture"
    /\ \E exists \in BOOLEAN, file \in SnapshotFiles :
         /\ exists \/ file = <<>>
         /\ LET got == FixtureChunks(IF exists THEN file ELSE <<>>, req.question, desig_tags)
            IN  rchunks' = Trim(SortDesc(rchunks \o got), req.top_k)
         /\ failed' = failed \cup (IF exists THEN {} ELSE {"snapshot"})
    /\ rpc' = "graph"
    /\ UNCHANGED <<req, desig_tags, issued, response, evars, cvars, xvars>>

\* lines 177-185: graph context and the response
GraphAndReturn ==
    /\ rpc = "graph"
    /\ \E policies \in {<<>>, GraphFixture} :
         response' = RetrieveResponse(rchunks,
                                      _kg_neighbors(TopPolicyIds(rchunks), policies),
                                      desig_tags)
    /\ rpc' = "done"
    /\ UNCHANGED <<req, desig_tags, rchunks, failed, issued, evars, cvars, xvars>>

RNext ==
    \/ RetrieveCall \/ SpatialTags \/ RetrieveEmbed \/ RetrieveEmbedded
    \/ RemoteTier \/ LocalTier \/ HashTier
    \/ DbTier \/ FixtureTier \/ GraphAndReturn

\* ------------------------------------------- policy and precedent search
NoHits == [kind |-> "none", hits |-> <<>>]

RaisedHits == [kind |-> "raise", hits |-> <<>>]

Hits200(hs) == [kind |-> "ok", hits |-> hs]

\* policy.py lines 48-49, precedent.py lines 37-38, in units of 1/300:
\* 0.6 * rank_txt + 0.4 * rank_vec with the ranks in tenths
SearchFormula(rank_txt, rank_vec) == 18 * rank_txt + 12 * rank_vec

\* the score column of the hybrid search query
SearchScore(r) == SearchFormula(OrZero(r.bm25), OrZero(r.sim))

\* precedent.py line 62: summary ILIKE '%q%'
ILike(q, r) ==
    /\ r.text # NullText
    /\ \E k \in 0..(Len(r.text) - Len(q)) :
          \A i \in 1..Len(q) : Lower(r.text[k + i]) = Lower(q[i])

\* policy.py lines 61-67, precedent.py lines 49-55: the hit of one hybrid row
HybridHit(r) == [id |-> r.rid, text |-> r.text, relevance |-> SearchScore(r), tier |-> "hybrid"]

\* policy.py line 82 (relevance = rank), precedent.py lines 66-72 (similarity = 0.5)
FallbackHit(endpoint, r) ==
    [id |-> r.rid, text |-> r.text,
     relevance |-> IF endpoint = "policy" THEN 30 * OrZero(r.bm25) ELSE 150,
     tier |-> "fallback"]

\* PolicyHit.text is a required str: a NULL text fails validation at that row;
\* search_precedents reads (summary or '') and takes NULL
BuildsHits(endpoint, rows) ==
    IF endpoint = "policy" THEN GoodPrefix(rows) ELSE rows

SInit ==
    /\ spc = "idle"
    /\ sreq = [endpoint |-> "policy", query |-> <<>>, limit |-> 1]
    /\ shits = <<>>
    /\ sfailed = {}
    /\ sissued = <<>>
    /\ sresponse = NoHits

\* policy.py lines 34-40, precedent.py lines 22-28: a blank query is answered at once
SearchCall ==
    /\ spc \in {"idle", "done"}
    /\ rpc \in {"idle", "done"}
    /\ pc \in {"idle", "done"}
    /\ calls < MaxCalls
    /\ \E e \in {"policy", "precedent"}, q \in Questions, k \in 1..MaxTopK :
         /\ sreq' = [endpoint |-> e, query |-> q, limit |-> k]
         /\ IF q = <<>>
            THEN sresponse' = Hits200(<<>>) /\ spc' = "done"
            ELSE sresponse' = NoHits /\ spc' = "embed"
    /\ shits' = <<>>
    /\ sfailed' = {}
    /\ sissued' = <<>>
    /\ UNCHANGED <<evars, cvars, rvars, kvars, gvars, yvars>>

\* policy.py line 41, precedent.py line 29: get_embedding(q) is entered
SearchEmbed ==
    /\ spc = "embed"
    /\ pc \in {"idle", "done"}
    /\ calls' = calls + 1
    /\ text' = sreq.query
    /\ fn' = "get_embedding"
    /\ result' = NoVec
    /\ tiers' = <<>>
    /\ pc' = FirstTier(provider)
    /\ spc' = "embedding"
    /\ UNCHANGED <<provider, hashseed, MODEL, modelCache, loads, cacheLoads, handles,
                   loadedAt, hashSeen>>
    /\ UNCHANGED <<sreq, shits, sfailed, sissued, sresponse, cvars, rvars, kvars, gvars, yvars>>

\* get_embedding(q) has returned, or has let an exception through
SearchEmbedded ==
    /\ spc = "embedding"
    /\ pc = "done"
    /\ IF result.kind = "vec"
       THEN spc' = "hybrid" /\ sresponse' = sresponse
       ELSE spc' = "done" /\ sresponse' = RaisedHits
    /\ UNCHANGED <<sreq, shits, sfailed, sissued, evars, cvars, rvars, kvars, gvars, yvars>>

\* policy.py lines 56-68, precedent.py lines 44-56: the hybrid query under
\* try/except; hits keeps what the loop had appended when a row fails
SearchHybrid ==
    /\ spc = "hybrid"
    /\ \/ \E why \in {"db_client", "db_connection", "vector_extension"} :
            /\ sfailed' = sfailed \cup {why}
            /\ sissued' = IF why = "vector_extension" THEN Append(sissued, "hybrid")
                          ELSE sissued
            /\ spc' = "fallback"
            /\ UNCHANGED <<shits, sresponse>>
       \/ \E table \in DbTables :
          \E rows \in Ranked(table, { i \in DOMAIN table : SqlWhere(table[i]) },
                              [i \in DOMAIN table |-> SearchScore(table[i])], sreq.limit) :
            LET good == BuildsHits(sreq.endpoint, rows)
                made == shits \o [i \in 1..Len(good) |-> HybridHit(good[i])]
            IN  /\ sissued' = Append(sissued, "hybrid")
                /\ shits' = made
                /\ IF Len(good) = Len(rows)
                   THEN /\ sresponse' = Hits200(made)
                        /\ spc' = "done"
                        /\ UNCHANGED sfailed
                   ELSE /\ sfailed' = sfailed \cup {"row"}
                        /\ spc' = "fallback"
                        /\ UNCHANGED sresponse
    /\ UNCHANGED <<sreq, evars, cvars, rvars, kvars, gvars, yvars>>

\* policy.py lines 69-83, precedent.py lines 57-73: the except branch opens a
\* connection of its own with no handler around it, runs the text-only query
\* and returns hits
SearchFallback ==
    /\ spc = "fallback"
    /\ \/ \E why \in {"db_client", "db_connection"} :
            /\ (sfailed \cap {"db_client", "db_connection"} # {}) => why \in sfailed
            /\ sfailed' = sfailed \cup {"fallback"}
            /\ sresponse' = RaisedHits
            /\ UNCHANGED <<shits, sissued>>
       \/ /\ "db_client" \notin sfailed
          /\ \E table \in DbTables :
             \E rows \in (IF sreq.endpoint = "policy"
                          THEN \* policy.py lines 74-75: WHERE tsv @@ query ORDER BY rank
                               Ranked(table,
                                      { i \in DOMAIN table :
                                          table[i].bm25 # Null /\ table[i].bm25 > 0 },
                                      [i \in DOMAIN table |-> OrZero(table[i].bm25)],
                                      sreq.limit)
                          ELSE \* the ILIKE query has no ORDER BY
                               Ranked(table,
                                      { i \in DOMAIN table : ILike(sreq.query, table[i]) },
                                      [i \in DOMAIN table |-> 0],
                                      sreq.limit)) :
               LET good == BuildsHits(sreq.endpoint, rows)
                   made == shits \o [i \in 1..Len(good) |->
                                        FallbackHit(sreq.endpoint, good[i])]
               IN  /\ sissued' = Append(sissued, "textonly")
                   /\ shits' = made
                   /\ IF Len(good) = Len(rows)
                      THEN sresponse' = Hits200(made) /\ UNCHANGED sfailed
                      ELSE sresponse' = RaisedHits /\ sfailed' = sfailed \cup {"fallback"}
    /\ spc' = "done"
    /\ UNCHANGED <<sreq, evars, cvars, rvars, kvars, gvars, yvars>>

SNext ==
    \/ SearchCall \/ SearchEmbed \/ SearchEmbedded
    \/ RemoteTier \/ LocalTier \/ HashTier
    \/ SearchHybrid \/ SearchFallback

\* ------------------------------------------------------- the fused scores
\* retriever.py lines 123-129 and policy.py lines 48-49: one candidate row
\* scored under both weightings
Candidate(bm25, sim, tags, txt) ==
    [bm25 |-> bm25, sim |-> sim, hits |-> Hits(tags, txt),
     tag_overlap |-> TagOverlap(tags, txt),
     fused |-> _score_formula(bm25, sim, TagOverlap(tags, txt)),
     search |-> SearchFormula(bm25, sim)]

KInit ==
    /\ cand = Candidate(0, 0, <<>>, <<"c">>)
    /\ prev = Candidate(0, 0, <<>>, <<"c">>)

\* the next row of a result set is scored
ScoreCandidate ==
    /\ \E bm25 \in 0..MaxRank, sim \in {-10, 0, 5, 10}, tags \in TagLists,
          txt \in { <<"c">>, <<"A">>, <<"A", "b">> } :
         cand' = Candidate(bm25, sim, tags, txt)
    /\ prev' = cand
    /\ UNCHANGED <<evars, cvars, rvars, svars, gvars, yvars>>

KNext == ScoreCandidate

\* ---------------------------------- evidence links: dependency graph, gaps
\* table evidence; year is the publication year: one document older than the
\* five-year window and one exactly five years old
EvidenceTable == << [id |-> 1, year |-> 2010], [id |-> 2, year |-> 2019] >>

EvidenceIds == { EvidenceTable[i].id : i \in DOMAIN EvidenceTable }

YearOf(e) == EvidenceTable[CHOOSE i \in DOMAIN EvidenceTable : EvidenceTable[i].id = e].year

\* EXTRACT(YEAR FROM NOW())
ThisYear == 2024

Strengths == {"core", "tangential"}

NoGraphCall == [kind |-> "none", args |-> <<>>, rows |-> <<>>, nodes |-> <<>>, edges |-> <<>>]

NoPrev == [kind |-> "none"]

\* the sequences that list each element of S once
Perms(S) ==
    LET n == Cardinality(S)
    IN  { q \in [1..n -> S] : \A i, j \in 1..n : i # j => q[i] # q[j] }

\* evidence.py lines 462-481: the link rows joined to their evidence and policy,
\* filtered by the arguments that are set (0: not given), in any order
DepQuery(policy_id, evidence_id) ==
    Perms({ l \in links : /\ l.policy_id \in policy
                          /\ l.evidence_id \in EvidenceIds
                          /\ policy_id # 0 => l.policy_id = policy_id
                          /\ evidence_id # 0 => l.evidence_id = evidence_id })

NotSeenShared(id, seen, other) == id \notin seen \cup other

\* evidence.py lines 490 and 493: if id not in seen
NotSeen(id, seen, other) == id \notin seen

RECURSIVE DepNodes(_, _, _)
\* evidence.py lines 483-495: nodes, with the two seen sets
DepNodes(rows, seen_evidence, seen_policy) ==
    IF rows = <<>> THEN <<>>
    ELSE LET r == Head(rows) IN
         (IF NotSeen(r.evidence_id, seen_evidence, seen_policy)
          THEN <<[id |-> <<"e", r.evidence_id>>, type |-> "evidence"]>> ELSE <<>>)
         \o (IF NotSeen(r.policy_id, seen_policy, seen_evidence)
             THEN <<[id |-> <<"p", r.policy_id>>, type |-> "policy"]>> ELSE <<>>)
         \o DepNodes(Tail(rows), seen_evidence \cup {r.evidence_id},
                     seen_policy \cup {r.policy_id})

\* evidence.py lines 496-501: one edge per row
DepEdges(rows) ==
    [i \in 1..Len(rows) |-> [from |-> <<"e", rows[i].evidence_id>>,
                             to |-> <<"p", rows[i].policy_id>>,
                             strength |-> rows[i].strength]]

\* what two calls are compared on: nodes as a set, edges as a multiset
Returned(call) ==
    [kind |-> call.kind, nodes |-> Range(call.nodes),
     edges |-> [x \in Range(call.edges) |->
                  Cardinality({ i \in DOMAIN call.edges : call.edges[i] = x })]]

SeenKept(type) ==
    IF gcall.kind # "dependencies" THEN {}
    ELSE { n.id[2] : n \in { m \in Range(gcall.nodes) : m.type = type } }

\* evidence.py lines 485-486: seen_evidence = set(), seen_policy = set()
Seen(type) == {}

\* the call before the next one, kept if the next one repeats it
Previous(kind, args) ==
    IF gcall.kind = kind /\ gcall.args = args THEN Returned(gcall) ELSE NoPrev

NoEvidenceQueryNoCore(pol, lks) ==
    { p \in pol : ~\E l \in lks : l.policy_id = p /\ l.strength = "core" }

NoEvidenceQueryAll(pol, lks) == pol

\* evidence.py lines 413-419: policy LEFT JOIN link WHERE link IS NULL
NoEvidenceQuery(pol, lks) ==
    { p \in pol : ~\E l \in lks : l.policy_id = p }

\* MAX(e.year) over the links of a policy
LatestYear(p, lks) ==
    LET years == { YearOf(l.evidence_id) : l \in { k \in lks : k.policy_id = p } }
    IN  CHOOSE y \in years : \A z \in years : z <= y

StaleQueryOldest(pol, lks) ==
    { [policy_id |-> p, latest_year |-> LatestYear(p, lks)] :
        p \in { q \in pol : \E l \in lks : /\ l.policy_id = q
                                             /\ YearOf(l.evidence_id) < ThisYear - 5 } }

StaleQueryInclusive(pol, lks) ==
    { [policy_id |-> p, latest_year |-> LatestYear(p, lks)] :
        p \in { q \in pol : /\ \E l \in lks : l.policy_id = q /\ l.evidence_id \in EvidenceIds
                            /\ LatestYear(q, lks) <= ThisYear - 5 } }

\* evidence.py lines 422-430: GROUP BY policy HAVING MAX(e.year) < this year - 5
StaleQuery(pol, lks) ==
    { [policy_id |-> p, latest_year |-> LatestYear(p, lks)] :
        p \in { q \in pol : /\ \E l \in lks : l.policy_id = q /\ l.evidence_id \in EvidenceIds
                            /\ LatestYear(q, lks) < ThisYear - 5 } }

LinkCount(p, lks, strengths) ==
    Cardinality({ l \in lks : l.policy_id = p /\ l.strength \in strengths })

WeakQueryAny(pol, lks) ==
    { [policy_id |-> p, link_count |-> LinkCount(p, lks, {"tangential"})] :
        p \in { q \in pol : LinkCount(q, lks, {"tangential"}) > 0 } }

\* evidence.py lines 433-443: tangential links GROUP BY policy HAVING
\* COUNT(*) = the number of all links of the policy
WeakQuery(pol, lks) ==
    { [policy_id |-> p, link_count |-> LinkCount(p, lks, {"tangential"})] :
        p \in { q \in pol : /\ LinkCount(q, lks, {"tangential"}) > 0
                            /\ LinkCount(q, lks, {"tangential"}) = LinkCount(q, lks, Strengths) } }

GInit ==
    /\ policy = {}
    /\ links = {}
    /\ fixture = GraphFixture
    /\ gcall = NoGraphCall
    /\ gprev = NoPrev
    /\ gpc = "idle"
    /\ no_evidence = {}
    /\ stale_evidence = {}
    /\ weak_links = {}
    /\ gchanged = FALSE
    /\ glinked = {}

\* a write lands after the first query of the last evidence_gaps
Interferes == gpc \in {"q2", "q3", "done"}

\* ingest: the next row of table policy
InsertPolicy ==
    /\ Cardinality(policy) < MaxPolicies
    /\ policy' = policy \cup {Cardinality(policy) + 1}
    /\ gcall' = NoGraphCall
    /\ gprev' = NoPrev
    /\ gchanged' = (gchanged \/ Interferes)
    /\ UNCHANGED <<links, fixture, gpc, no_evidence, stale_evidence, weak_links, glinked>>
    /\ UNCHANGED <<evars, cvars, rvars, svars, kvars, yvars>>

\* evidence.py lines 752-768: INSERT ... ON CONFLICT (evidence_id, policy_id)
\* DO UPDATE, committed at once
link_to_policy ==
    /\ \E e \in EvidenceIds, p \in policy, strength \in Strengths :
         LET others == { l \in links : ~(l.evidence_id = e /\ l.policy_id = p) } IN
         /\ Cardinality(others) < MaxLinks
         /\ links' = others \cup {[evidence_id |-> e, policy_id |-> p,
                                     strength |-> strength]}
         /\ glinked' = IF gpc \in {"q2", "q3"} /\ ~\E l \in links : l.policy_id = p
                        THEN glinked \cup {p}
                        ELSE glinked
    /\ gcall' = NoGraphCall
    /\ gprev' = NoPrev
    /\ gchanged' = (gchanged \/ Interferes)
    /\ UNCHANGED <<policy, fixture, gpc, no_evidence, stale_evidence, weak_links>>
    /\ UNCHANGED <<evars, cvars, rvars, svars, kvars, yvars>>

\* policy_graph.json is deployed or removed
WriteFixture ==
    /\ fixture' = IF fixture = <<>> THEN GraphFixture ELSE <<>>
    /\ gcall' = NoGraphCall
    /\ gprev' = NoPrev
    /\ UNCHANGED <<policy, links, gpc, no_evidence, stale_evidence, weak_links, gchanged, glinked>>
    /\ UNCHANGED <<evars, cvars, rvars, svars, kvars, yvars>>

\* evidence.py lines 455-503, one call
get_dependency_graph ==
    /\ \E policy_id \in 0..MaxPolicies, evidence_id \in {0} \cup EvidenceIds :
       \E rows \in DepQuery(policy_id, evidence_id) :
         /\ gprev' = Previous("dependencies", <<policy_id, evidence_id>>)
         /\ gcall' = [kind |-> "dependencies", args |-> <<policy_id, evidence_id>>,
                      rows |-> rows,
                      nodes |-> DepNodes(rows, Seen("evidence"), Seen("policy")),
                      edges |-> DepEdges(rows)]
    /\ UNCHANGED <<policy, links, fixture, gpc, no_evidence, stale_evidence, weak_links,
                   gchanged, glinked>>
    /\ UNCHANGED <<evars, cvars, rvars, svars, kvars, yvars>>

\* retriever.py lines 36-56, one call
Neighbors ==
    /\ \E policy_ids \in { <<>>, << <<1, 0>> >>, << <<1, 1>>, <<2, 0>> >>,
                          << <<3, 0>>, <<3, 1>> >> } :
         LET g == _kg_neighbors(policy_ids, fixture) IN
         /\ gprev' = Previous("neighbors", policy_ids)
         /\ gcall' = [kind |-> "neighbors", args |-> policy_ids, rows |-> <<>>,
                      nodes |-> g.nodes, edges |-> g.edges]
    /\ UNCHANGED <<policy, links, fixture, gpc, no_evidence, stale_evidence, weak_links,
                   gchanged, glinked>>
    /\ UNCHANGED <<evars, cvars, rvars, svars, kvars, yvars>>

\* evidence.py lines 406-411: the request arrives and the connection is opened
GapsCall ==
    /\ gpc \in {"idle", "done"}
    /\ gpc' = "q1"
    /\ no_evidence' = {}
    /\ stale_evidence' = {}
    /\ weak_links' = {}
    /\ gchanged' = FALSE
    /\ glinked' = {}
    /\ UNCHANGED <<policy, links, fixture, gcall, gprev>>
    /\ UNCHANGED <<evars, cvars, rvars, svars, kvars, yvars>>

\* evidence.py lines 413-419: each statement reads the rows committed when it runs
GapsNoEvidence ==
    /\ gpc = "q1"
    /\ no_evidence' = NoEvidenceQuery(policy, links)
    /\ gpc' = "q2"
    /\ UNCHANGED <<policy, links, fixture, gcall, gprev, stale_evidence, weak_links, gchanged, glinked>>
    /\ UNCHANGED <<evars, cvars, rvars, svars, kvars, yvars>>

\* evidence.py lines 422-430
GapsStale ==
    /\ gpc = "q2"
    /\ stale_evidence' = StaleQuery(policy, links)
    /\ gpc' = "q3"
    /\ UNCHANGED <<policy, links, fixture, gcall, gprev, no_evidence, weak_links, gchanged, glinked>>
    /\ UNCHANGED <<evars, cvars, rvars, svars, kvars, yvars>>

\* evidence.py lines 433-449: the last query, then the report
GapsWeak ==
    /\ gpc = "q3"
    /\ weak_links' = WeakQuery(policy, links)
    /\ gpc' = "done"
    /\ UNCHANGED <<policy, links, fixture, gcall, gprev, no_evidence, stale_evidence,
                   gchanged, glinked>>
    /\ UNCHANGED <<evars, cvars, rvars, svars, kvars, yvars>>

GraphNext == InsertPolicy \/ link_to_policy \/ WriteFixture \/ get_dependency_graph \/ Neighbors

GapsNext == InsertPolicy \/ link_to_policy \/ GapsCall \/ GapsNoEvidence \/ GapsStale \/ GapsWeak

\* ------------------------------------------------------- the synthesiser
\* a clause is a sequence of words separated by single blanks
ClauseTexts ==
    UNION {[1..n -> {"Must", "not", "exceed", "should", "seek", "to", "permitted", "refuse"}] :
           n \in 0..MaxWords}

\* synthesise.py line 29
RequirementKeys == { <<"must">>, <<"required">>, <<"shall">>, <<"not", "exceed">> }

\* line 31
AdvisoryKeys == { <<"should">>, <<"encouraged">>, <<"seek", "to">> }

\* line 33
ConflictKeys == { <<"not", "permitted">>, <<"contrary">>, <<"refuse">> }

\* any(k in t for k in keys): a keyword is one word or two adjacent words
AnyKeyword(keys, t) ==
    \E k \in keys :
        \E i \in 0..(Len(t) - Len(k)) : \A j \in 1..Len(k) : t[i + j] = k[j]

_classify_constraint_cased(txt) ==
    IF AnyKeyword(RequirementKeys, txt) THEN "requirement"
    ELSE IF AnyKeyword(AdvisoryKeys, txt) THEN "advisory"
    ELSE IF AnyKeyword(ConflictKeys, txt) THEN "conflict"
    ELSE "advisory"

\* synthesise.py lines 27-35
_classify_constraint(txt) ==
    LET t == LowerAll(txt) IN
    IF AnyKeyword(RequirementKeys, t) THEN "requirement"
    ELSE IF AnyKeyword(AdvisoryKeys, t) THEN "advisory"
    ELSE IF AnyKeyword(ConflictKeys, t) THEN "conflict"
    ELSE "advisory"

\* a ChunkItem but for its chunk_id; paragraph references are strings of
\* digits, as chunk ids are; sim and bm25 are in tenths, and the schema lets
\* them be None
ChunkFields ==
    [policy_id : 1..2, para_ref : {Null, 1},
     text : { <<"Must", "not", "exceed">>, <<"should", "refuse">>, <<"not", "permitted">> },
     score : { [sim |-> -10, bm25 |-> Null], [sim |-> 5, bm25 |-> 5],
               [sim |-> 10, bm25 |-> 40] }]

\* ret.chunks, from the fields of its items: the chunk id is the position
RankedChunks(f) ==
    [i \in DOMAIN f |->
        [chunk_id |-> i, policy_id |-> f[i].policy_id, para_ref |-> f[i].para_ref,
         text |-> f[i].text, sim |-> f[i].score.sim, bm25 |-> f[i].score.bm25]]

EmptyGraph == [nodes |-> <<>>, edges |-> <<>>]

CertaintyUnclamped(ch) == 6 * OrZero(ch.sim) + 3 * OrZero(ch.bm25) + 10

\* line 59, in hundredths: min(1.0, max(0.2, 0.6*(sim or 0) + 0.3*(bm25 or 0) + 0.1))
Certainty(ch) == Min(100, Max(20, 6 * OrZero(ch.sim) + 3 * OrZero(ch.bm25) + 10))

\* lines 50-75: the loop over ret.chunks with its set of seen keys
\* (kind, ch.para_ref or ch.chunk_id), line 55, and the ConstraintItem of
\* lines 67-75
RECURSIVE BuildConstraints(_, _)
BuildConstraints(cs, seen) ==
    IF cs = <<>> THEN <<>>
    ELSE LET ch   == Head(cs)
             kind == _classify_constraint(ch.text)
             key  == <<kind, IF ch.para_ref # Null THEN ch.para_ref ELSE ch.chunk_id>>
         IN  IF key \in seen THEN BuildConstraints(Tail(cs), seen)
             ELSE <<[type |-> kind, clause |-> ch.para_ref, source_policy |-> ch.policy_id,
                     certainty |-> Certainty(ch), refs |-> <<ch.chunk_id>>]>> \o
                  BuildConstraints(Tail(cs), seen \cup {key})

\* lines 77-82: a dict keyed f"{c.type}:{c.source_policy}:{c.clause}" (no
\* component holds a colon) keeps the first constraint of each key, in
\* insertion order
RECURSIVE Dedup(_, _)
Dedup(cs, keys) ==
    IF cs = <<>> THEN <<>>
    ELSE LET c   == Head(cs)
             key == <<c.type, c.source_policy, c.clause>>
         IN  IF key \in keys THEN Dedup(Tail(cs), keys)
             ELSE <<c>> \o Dedup(Tail(cs), keys \cup {key})

TruncateShort(cs, k) == SubSeq(cs, 1, Min(k - 1, Len(cs)))

\* line 84: constraints[: req.top_k]
Truncate(cs, k) == SubSeq(cs, 1, Min(k, Len(cs)))

YInit ==
    /\ ypc = "idle"
    /\ classified = [text |-> <<>>, kind |-> "advisory"]
    /\ synreq = [question |-> <<>>, top_k |-> 1]
    /\ ret = [chunks |-> <<>>, graph |-> EmptyGraph]
    /\ constraints = <<>>
    /\ synresponse = [kind |-> "none", constraints |-> <<>>, graph |-> EmptyGraph]

\* a text is classified
ClassifyCall ==
    /\ ypc = "idle"
    /\ ypc' = "done"
    /\ \E txt \in ClauseTexts :
         classified' = [text |-> txt, kind |-> _classify_constraint(txt)]
    /\ UNCHANGED <<synreq, ret, constraints, synresponse>>
    /\ UNCHANGED <<evars, cvars, rvars, svars, kvars, gvars>>

\* synthesise.py lines 38-86, one request; retrieve answers a blank question
\* with no chunk and any other with at most top_k chunks and a graph
synthesise ==
    /\ ypc = "idle"
    /\ ypc' = "done"
    /\ \E q \in { <<>>, <<"A">> }, k \in 1..MaxTopK :
       \E n \in 0..(IF q = <<>> THEN 0 ELSE k),
          g \in { EmptyGraph, [nodes |-> << <<1, 0>> >>, edges |-> <<>>] } :
       \E f \in [1..n -> ChunkFields] :
         LET cs  == RankedChunks(f)
             all == Dedup(BuildConstraints(cs, {}), {})
         IN  /\ q = <<>> => g = EmptyGraph
             /\ synreq' = [question |-> q, top_k |-> k]
             /\ ret' = [chunks |-> cs, graph |-> g]
             /\ constraints' = all
             /\ synresponse' = [kind |-> "ok", constraints |-> Truncate(all, k), graph |-> g]
    /\ UNCHANGED classified
    /\ UNCHANGED <<evars, cvars, rvars, svars, kvars, gvars>>

\* the result has been handed to the caller; the locals of the call are gone
SynthReturn ==
    /\ ypc = "done"
    /\ ypc' = "idle"
    /\ classified' = [text |-> <<>>, kind |-> "advisory"]
    /\ synreq' = [question |-> <<>>, top_k |-> 1]
    /\ ret' = [chunks |-> <<>>, graph |-> EmptyGraph]
    /\ constraints' = <<>>
    /\ synresponse' = [kind |-> "none", constraints |-> <<>>, graph |-> EmptyGraph]
    /\ UNCHANGED <<evars, cvars, rvars, svars, kvars, gvars>>

SynthNext == ClassifyCall \/ synthesise \/ SynthReturn

\* ---------------------------------------------------------- specifications
vars == <<evars, cvars, rvars, xvars>>

\* the embedder at rest, for the specifications of the other components
EIdle == EInit /\ provider = "ollama"

\* the other components at rest
XInit == SInit /\ KInit /\ GInit /\ YInit

\* a fresh process
InitEmbed == EInit /\ CInit /\ RInit /\ XInit

\* a fresh process with the provider configured
InitIdle == EIdle /\ CInit /\ RInit /\ XInit

SpecEmbed == InitEmbed /\ [][ENext]_vars

SpecChunk == InitIdle /\ [][CNext]_vars

SpecRetrieve == InitEmbed /\ [][RNext]_vars

SpecSearch == InitEmbed /\ [][SNext]_vars

SpecScore == InitIdle /\ [][KNext]_vars

SpecGraph == InitIdle /\ [][GraphNext]_vars

SpecGaps == InitIdle /\ [][GapsNext]_vars

SpecSynth == InitIdle /\ [][SynthNext]_vars

\* ------------------------------------------------------------------ claims
Last(s) == s[Len(s)]

WellFormedChunk(c) ==
    /\ DOMAIN c = {"chunk_id", "policy_id", "text", "score", "bm25", "sim", "tags"}
    /\ c.text # <<>>
    /\ c.text # NullText
    /\ c.score \in Nat

\* C10: retrieve never lets an exception through, and when it has returned,
\* whatever collaborators were unavailable, the response has its list of
\* chunks, its graph context and its designations
C10_Available ==
    /\ response.kind # "raise"
    /\ rpc = "done" =>
          /\ response.kind = "ok"
          /\ \A i \in 1..Len(response.chunks) : WellFormedChunk(response.chunks[i])
          /\ DOMAIN response.graph = {"nodes", "edges"}
          /\ response.designations = desig_tags

\* a request with a site geometry was answered although the spatial backend,
\* the embedding provider, the local model, the database and the snapshot
\* file were all unavailable
C10_EverythingDown ==
    /\ rpc = "done"
    /\ req.site_geom
    /\ req.question # <<>>
    /\ tiers = <<"remote", "local", "hash">>
    /\ {"spatial", "snapshot"} \subseteq failed
    /\ failed \cap {"db_client", "db_connection", "vector_extension"} # {}
    /\ response.kind = "ok"

\* C1: a get_embedding call never lets an exception through; when it has
\* returned, whatever failed on the way, its result is a vector
C1_Total ==
    fn = "get_embedding" => /\ result.kind # "raise"
                            /\ pc = "done" => result.kind = "vec"

\* the provider call and the local tier both failed and the call still returned
C1_AllTiersFailed ==
    /\ fn = "get_embedding"
    /\ pc = "done"
    /\ tiers = <<"remote", "local", "hash">>
    /\ result.kind = "vec"

\* C2: whichever tier answered (and for embed as well), the returned vector
\* has exactly DimTarget elements
C2_Dimension ==
    pc = "done" /\ result.kind = "vec" => Len(result.num) = DimTarget

\* the provider answered with the two-element vector <<3, 4>>, which was zero-padded
C2_PaddedProviderVector ==
    /\ pc = "done"
    /\ tiers = <<"remote">>
    /\ result.kind = "vec"
    /\ result.num = [i \in 1..DimTarget |-> IF i = 1 THEN 3 ELSE IF i = 2 THEN 4 ELSE 0]

\* C3: whichever tier answered, a returned vector that is not the zero vector
\* has L2 norm 1 (sum of squares of num equal to den2)
C3_UnitNorm ==
    pc = "done" /\ result.kind = "vec" /\ SumSq(result.num) # 0
        => SumSq(result.num) = result.den2

\* C4: every run of the hash fallback on a text, in whatever process and after
\* whatever other calls, returned the same vector
C4_HashDeterministic ==
    \A t \in Texts : \A x, y \in hashSeen[t] : x[2] = y[2]

\* the hash fallback has run on one non-empty text in two processes with
\* different hash seeds
C4_TwoProcesses ==
    \E t \in Texts : t # <<>> /\ {x[1] : x \in hashSeen[t]} = {0, 1}

\* C5: within one process each of the two model caches is filled at most once,
\* and every encode of the process went to that one handle
C5_LoadedOnce ==
    /\ loads <= 1
    /\ cacheLoads <= 1
    /\ handles \subseteq {1}
    /\ MODEL # NoModel => MODEL.id = 1 /\ loads = 1
    /\ modelCache # NoModel => modelCache.id = 1 /\ cacheLoads = 1

\* a get_embedding call answered from the local tier with a model that an
\* earlier call of the same process had loaded
C5_ReusedLater ==
    /\ fn = "get_embedding"
    /\ pc = "done"
    /\ tiers # <<>>
    /\ Last(tiers) = "local"
    /\ loadedAt # 0
    /\ loadedAt < calls
    /\ handles = {1}

RECURSIVE Split(_, _)
\* str.split(): the maximal runs of non-space characters; w is the run being read
Split(s, w) ==
    IF s = <<>> THEN (IF w = <<>> THEN <<>> ELSE <<w>>)
    ELSE IF Head(s) = " "
    THEN (IF w = <<>> THEN <<>> ELSE <<w>>) \o Split(Tail(s), <<>>)
    ELSE Split(Tail(s), Append(w, Head(s)))

RECURSIVE Join(_)
\* " ".join(words)
Join(ws) ==
    IF ws = <<>> THEN <<>>
    ELSE IF Len(ws) = 1 THEN ws[1]
    ELSE ws[1] \o <<" ">> \o Join(Tail(ws))

\* C6: a text whose whitespace-normalised form (its words joined by single
\* spaces) has length 1..target_len comes back as that one chunk
C6_SoleChunk ==
    cpc = "done" =>
        LET n == Join(Split(raw, <<>>)) IN
        (0 < Len(n) /\ Len(n) <= target_len) => chunks = <<n>>

\* a text that needed normalising, of exactly target_len characters, with a
\* period the loop would have snapped to
C6_ExactFit ==
    /\ cpc = "done"
    /\ raw # ctext
    /\ Len(ctext) = target_len
    /\ PastThreshold(RFind(ctext), target_len)
    /\ RFind(ctext) + 1 < Len(ctext)
    /\ chunks = <<ctext>>

Covered ==
    /\ iters # <<>>
    /\ iters[1].start = 0
    /\ Last(iters).end = Len(ctext)
    /\ \A k \in 1..(Len(iters) - 1) :
          /\ iters[k+1].start >= 0
          /\ iters[k+1].start <= iters[k].end

\* C7: for a text longer than target_len the chunker returns its chunks, and
\* the ranges of its windows start at 0, end at the end of the text and leave
\* no gap
C7_Coverage ==
    /\ cpc # "diverged"
    /\ cpc = "done" /\ Len(ctext) > target_len => Covered

\* C8: every chunk is at most target_len long; a window with a period at an
\* offset above 40% of target_len gives the chunk that ends right after the
\* last such period, any other window gives the (stripped) whole window
C8_ChunkBound ==
    /\ \A i \in 1..Len(chunks) : Len(chunks[i]) <= target_len
    /\ \A k \in 1..Len(iters) :
         LET r   == iters[k]
             win == Slice(ctext, r.start, r.wend)
             P   == { i \in 0..(Len(win) - 1) :
                        win[i+1] = "." /\ 5 * i > 2 * target_len }
         IN  /\ Len(r.chunk) <= target_len
             /\ r.wend = Min(Len(ctext), r.start + target_len)
             /\ IF P # {}
                THEN LET last == CHOOSE i \in P : \A j \in P : j <= i IN
                     /\ r.end = r.start + last + 1
                     /\ r.chunk = Strip(Slice(ctext, r.start, r.end))
                     /\ Last(r.chunk) = "."
                ELSE /\ r.end = r.wend
                     /\ r.chunk = Strip(win)

\* the chunker returned after a window with two periods above the threshold
\* was cut after the second one, before the window's end
C8_Snapped ==
    /\ cpc = "done"
    /\ \E k \in 1..Len(iters) :
         LET r   == iters[k]
             win == Slice(ctext, r.start, r.wend)
         IN  /\ r.end < r.wend
             /\ PastThreshold(FindFirst(win), target_len)
             /\ FindFirst(win) < RFind(win)

\* C9: on every iteration that is followed by another one the window start
\* grows and is not negative
C9_Progress ==
    [][cpc = "loop" /\ cpc' # "done" => start' > start /\ start' >= 0]_vars

\* C11: the chunks retrieve returns are in non-increasing order of their fused
\* score 0.5*bm25 + 0.4*sim + 0.1*tag_overlap, whichever tier produced them
C11_FusedOrder ==
    rpc = "done" /\ response.kind = "ok" =>
        \A i, j \in 1..Len(response.chunks) :
            i < j => response.chunks[i].score >= response.chunks[j].score

\* C12: retrieve never returns more than top_k chunks, whichever tier produced
\* them and whether or not a tier failed part-way
C12_AtMostTopK ==
    rpc = "done" => Len(response.chunks) <= req.top_k

\* the row loop of the database tier failed after it had appended a chunk, the
\* snapshot scan added its own, and the response holds top_k = 2 chunks of
\* which one is a database chunk
C12_TrimmedAfterPartial ==
    /\ rpc = "done"
    /\ "row" \in failed
    /\ req.top_k = 2
    /\ Len(response.chunks) = 2
    /\ \E i \in 1..2 : response.chunks[i].chunk_id[1] = "para"

\* C13: the snapshot scan is entered only when no query engine is reachable;
\* while the database is reachable a lexical-only query is issued before it
C13_LexicalBeforeSnapshot ==
    rpc = "fixture" =>
        \/ failed \cap {"db_client", "db_connection"} # {}
        \/ "lexical" \in Range(issued)

\* C16: a failure of the spatial backend leaves the tag list empty and the
\* request goes on to a normal response; without site geometry the tag list
\* is empty and no spatial query is issued
C16_SpatialBestEffort ==
    /\ "spatial" \in failed =>
          /\ rpc # "spatial"
          /\ desig_tags = <<>>
          /\ response.kind # "raise"
          /\ rpc = "done" => response.kind = "ok" /\ response.designations = <<>>
    /\ ~req.site_geom =>
          /\ desig_tags = <<>>
          /\ "spatial" \notin Range(issued)
          /\ "spatial" \notin failed

\* the intersection query was issued and failed, and the request was answered
\* with chunks and no designations
C16_SpatialQueryFailed ==
    /\ rpc = "done"
    /\ req.site_geom
    /\ "spatial" \in failed
    /\ "spatial" \in Range(issued)
    /\ response.kind = "ok"
    /\ response.chunks # <<>>
    /\ response.designations = <<>>

\* C14: policy search and precedent search never let an exception through:
\* when the database is unavailable they return a (possibly empty) list
C14_SearchAvailable ==
    /\ sresponse.kind # "raise"
    /\ spc = "done" => sresponse.kind = "ok"

\* C15: of two scored candidates, the one that is at least as large in lexical
\* rank, vector similarity and tag overlap has at least as large a fused score
\* under both weightings, and tag_overlap is min(1, hits/3), within [0, 1]
\* (0..30 in units of 1/30)
C15_Monotone ==
    /\ \A c \in {cand, prev} :
          /\ c.tag_overlap \in 0..30
          /\ c.tag_overlap = IF c.hits >= 3 THEN 30 ELSE 10 * c.hits
    /\ (prev.bm25 <= cand.bm25 /\ prev.sim <= cand.sim /\ prev.tag_overlap <= cand.tag_overlap)
          => prev.fused <= cand.fused
    /\ (prev.bm25 <= cand.bm25 /\ prev.sim <= cand.sim) => prev.search <= cand.search

\* two candidates with the same lexical rank and four designation hits each
\* (tag overlap capped at 1), the second with the larger similarity and the
\* larger scores
C15_SimilarityRaised ==
    /\ prev.bm25 = cand.bm25
    /\ prev.hits = 4 /\ cand.hits = 4
    /\ cand.tag_overlap = 30
    /\ prev.sim < cand.sim
    /\ prev.fused < cand.fused
    /\ prev.search < cand.search

\* C17: in the dependency graph every node id occurs once, the node ids are
\* those of the rows, in the order in which the rows first mention them
\* (evidence before policy within a row), and there is one edge per row
C17_NodesOnce ==
    gcall.kind = "dependencies" =>
        LET rows  == gcall.rows
            nodes == gcall.nodes
            flat  == [i \in 1..(2 * Len(rows)) |->
                        IF i % 2 = 1 THEN <<"e", rows[(i + 1) \div 2].evidence_id>>
                        ELSE <<"p", rows[i \div 2].policy_id>>]
            FirstAt(id) == CHOOSE i \in DOMAIN flat :
                              flat[i] = id /\ \A j \in 1..(i - 1) : flat[j] # id
        IN  /\ \A i, j \in DOMAIN nodes : i # j => nodes[i].id # nodes[j].id
            /\ { nodes[i].id : i \in DOMAIN nodes } = Range(flat)
            /\ \A i, j \in DOMAIN nodes : i < j => FirstAt(nodes[i].id) < FirstAt(nodes[j].id)
            /\ Len(gcall.edges) = Len(rows)
            /\ \A i \in DOMAIN rows :
                  /\ gcall.edges[i].from = <<"e", rows[i].evidence_id>>
                  /\ gcall.edges[i].to = <<"p", rows[i].policy_id>>

\* two link rows of one policy gave three nodes, the policy node after the
\* first evidence node, and two edges
C17_SharedNodes ==
    /\ gcall.kind = "dependencies"
    /\ Len(gcall.rows) = 2
    /\ gcall.rows[1].policy_id = gcall.rows[2].policy_id
    /\ Len(gcall.nodes) = 3
    /\ gcall.nodes[2].type = "policy"
    /\ Len(gcall.edges) = 2

\* C18: a graph call that repeats the call before it, with no table or file
\* written in between, returns the same nodes as a set and the same edges as
\* a multiset
C18_Idempotent ==
    gprev.kind # "none" => gprev = Returned(gcall)

\* the dependency graph of two or more link rows was asked for twice
C18_AskedTwice ==
    /\ gprev.kind = "dependencies"
    /\ gcall.kind = "dependencies"
    /\ Len(gcall.rows) >= 2
    /\ gprev.nodes # {}

\* C19: over tables that no one wrote during the call, no policy of
\* no_evidence is in stale_evidence or in weak_links_only; without links the
\* two other lists are empty and no_evidence lists every policy, and without
\* policies all three are empty
C19_NoEvidenceDisjoint ==
    gpc = "done" /\ ~gchanged =>
        LET stale == { r.policy_id : r \in stale_evidence }
            weak  == { r.policy_id : r \in weak_links }
        IN  /\ no_evidence \cap stale = {}
            /\ no_evidence \cap weak = {}
            /\ links = {} => stale = {} /\ weak = {} /\ no_evidence = policy
            /\ policy = {} => stale = {} /\ weak = {} /\ no_evidence = {}

\* a report with a policy in each list
C19_AllThreeKinds ==
    /\ gpc = "done"
    /\ ~gchanged
    /\ no_evidence # {}
    /\ stale_evidence # {}
    /\ weak_links # {}

\* C20 as stated: the three lists are pairwise disjoint
C20_PairwiseDisjoint ==
    gpc = "done" /\ ~gchanged =>
        LET stale == { r.policy_id : r \in stale_evidence }
            weak  == { r.policy_id : r \in weak_links }
        IN  /\ no_evidence \cap stale = {}
            /\ no_evidence \cap weak = {}
            /\ stale \cap weak = {}

\* C20 amended: no_evidence is disjoint from the two other lists, and the
\* policies in both stale_evidence and weak_links_only are exactly those with
\* a link, all of whose links are tangential and all of whose linked evidence
\* is more than five years old
C20_OverlapOnlyStaleWeak ==
    gpc = "done" /\ ~gchanged =>
        LET stale == { r.policy_id : r \in stale_evidence }
            weak  == { r.policy_id : r \in weak_links }
            of(p) == { l \in links : l.policy_id = p }
        IN  /\ no_evidence \cap (stale \cup weak) = {}
            /\ \A p \in policy :
                  p \in stale \cap weak <=>
                      /\ of(p) # {}
                      /\ \A l \in of(p) : /\ l.strength = "tangential"
                                          /\ YearOf(l.evidence_id) < ThisYear - 5

\* one policy is in both stale_evidence and weak_links_only and another is
\* in stale_evidence alone
C20_StaleAndWeak ==
    /\ gpc = "done"
    /\ ~gchanged
    /\ \E r \in stale_evidence, w \in weak_links : r.policy_id = w.policy_id
    /\ \E r \in stale_evidence : \A w \in weak_links : r.policy_id # w.policy_id

\* C21: over tables that no one wrote during the call, stale_evidence holds
\* one row for exactly the policies that have a link and whose newest linked
\* evidence is more than five years old (evidence exactly five years old is
\* not stale), and the row carries the year of that newest evidence
C21_StaleExact ==
    gpc = "done" /\ ~gchanged =>
        LET of(p) == { l \in links : l.policy_id = p }
        IN  /\ \A r \in stale_evidence :
                  /\ r.policy_id \in policy
                  /\ \E l \in of(r.policy_id) : YearOf(l.evidence_id) = r.latest_year
                  /\ \A l \in of(r.policy_id) : YearOf(l.evidence_id) <= r.latest_year
                  /\ r.latest_year < ThisYear - 5
            /\ \A p \in policy :
                  (\E r \in stale_evidence : r.policy_id = p) <=>
                      /\ of(p) # {}
                      /\ \A l \in of(p) : YearOf(l.evidence_id) < ThisYear - 5

\* a policy whose only evidence is of 2010 is reported with latest_year 2010
\* next to a policy whose only evidence is exactly five years old and which
\* is not reported
C21_BoundaryNotStale ==
    /\ gpc = "done"
    /\ ~gchanged
    /\ [policy_id |-> 1, latest_year |-> 2010] \in stale_evidence
    /\ \E l \in links : l.policy_id = 2 /\ YearOf(l.evidence_id) = ThisYear - 5
    /\ \A r \in stale_evidence : r.policy_id # 2

\* C22: over tables that no one wrote during the call, weak_links_only
\* holds exactly the policies that have a link and only tangential links,
\* with the number of those links, and no_evidence holds exactly the
\* policies without any link row
C22_WeakAndNoneExact ==
    gpc = "done" /\ ~gchanged =>
        LET of(p) == { l \in links : l.policy_id = p }
        IN  /\ no_evidence = { p \in policy : of(p) = {} }
            /\ \A w \in weak_links :
                  w.policy_id \in policy /\ w.link_count = Cardinality(of(w.policy_id))
            /\ \A p \in policy :
                  (\E w \in weak_links : w.policy_id = p) <=>
                      /\ of(p) # {}
                      /\ \A l \in of(p) : l.strength = "tangential"

\* a policy with one tangential and one core link is in neither list while
\* another policy has no link row
C22_MixedLinks ==
    /\ gpc = "done"
    /\ ~gchanged
    /\ \E p \in policy :
          /\ \E l \in links : l.policy_id = p /\ l.strength = "tangential"
          /\ \E l \in links : l.policy_id = p /\ l.strength = "core"
          /\ p \notin no_evidence
          /\ \A w \in weak_links : w.policy_id # p
    /\ no_evidence # {}

\* C30 as stated: also when link_to_policy commits between the three queries,
\* no policy of no_evidence is in stale_evidence or in weak_links_only
C30_DisjointUnderWrites ==
    gpc = "done" =>
        LET stale == { r.policy_id : r \in stale_evidence }
            weak  == { r.policy_id : r \in weak_links }
        IN  no_evidence \cap (stale \cup weak) = {}

\* C30 amended: the three queries each read the rows committed when they
\* run, so a report may list a policy in no_evidence and in stale_evidence
\* or weak_links_only, and the policies it lists so are only policies that
\* got their first link row by a link_to_policy committed after the first
\* query of the call
C30_OverlapOnlyLinkedDuring ==
    gpc \in {"q3", "done"} =>
        LET stale == { r.policy_id : r \in stale_evidence }
            weak  == { r.policy_id : r \in weak_links }
        IN  no_evidence \cap (stale \cup weak) \subseteq glinked

\* a report lists a policy both in no_evidence and in stale_evidence, after
\* a link_to_policy between its first and its second query
C30_ListedTwice ==
    /\ gpc = "done"
    /\ \E p \in no_evidence \cap glinked : \E r \in stale_evidence : r.policy_id = p

\* C28: during a get_embedding the tiers run in the order remote, local,
\* hash, starting with remote exactly when the provider is configured; a
\* later tier is entered only while no earlier tier has produced a vector,
\* and a finished call's vector comes from the last tier that ran
C28_TierOrder ==
    fn = "get_embedding" =>
        LET order == <<"remote", "local", "hash">>
            first == IF provider = "ollama" THEN 1 ELSE 2
        IN  /\ \E n \in 0..3 : tiers = SubSeq(order, first, n)
            /\ pc \in {"remote", "local", "hash"} => result.kind # "vec"
            /\ pc = "remote" => tiers = <<>>
            /\ pc = "local" => "local" \notin Range(tiers) /\ "hash" \notin Range(tiers)
            /\ pc = "hash" => "local" \in Range(tiers) /\ "hash" \notin Range(tiers)
            /\ pc = "done" => tiers # <<>>

\* the provider gave no vector and the local model gave one: the call is
\* over after two tiers
C28_LocalAfterRemote ==
    /\ fn = "get_embedding"
    /\ pc = "done"
    /\ tiers = <<"remote", "local">>
    /\ result.kind = "vec"

\* C29: the chunks of one response of retrieve all come from the same tier
\* (the database or the snapshot file), and no chunk is returned twice
C29_SingleTier ==
    rpc = "done" /\ response.kind = "ok" =>
        \A i, j \in 1..Len(response.chunks) :
            /\ response.chunks[i].chunk_id[1] = response.chunks[j].chunk_id[1]
            /\ i # j => response.chunks[i].chunk_id # response.chunks[j].chunk_id

\* C23: a text that contains "must", "required", "shall" or "not exceed" in
\* any letter case is classified requirement, whatever else it contains, and
\* every classification and every constraint type is one of requirement,
\* advisory, conflict
C23_ModalIsRequirement ==
    LET kinds == {"requirement", "advisory", "conflict"} IN
    /\ classified.kind \in kinds
    /\ AnyKeyword(RequirementKeys, LowerAll(classified.text)) =>
          classified.kind = "requirement"
    /\ \A i \in 1..Len(synresponse.constraints) :
          /\ synresponse.constraints[i].type \in kinds
          /\ AnyKeyword(RequirementKeys,
                        LowerAll(ret.chunks[synresponse.constraints[i].refs[1]].text)) =>
                synresponse.constraints[i].type = "requirement"

\* a capitalised "Must" next to an advisory and a refusal keyword
C23_ModalAmongOthers ==
    /\ ypc = "done"
    /\ classified.text = <<"Must", "should", "refuse">>
    /\ classified.kind = "requirement"

\* C24: a text without modal-obligation keyword is classified conflict when
\* it contains "not permitted", "contrary" or "refuse", also next to an
\* advisory keyword, and advisory only when it contains none of them
C24_ConflictBeforeAdvisory ==
    LET t == LowerAll(classified.text) IN
    ~AnyKeyword(RequirementKeys, t) =>
        classified.kind = IF AnyKeyword(ConflictKeys, t) THEN "conflict" ELSE "advisory"

\* C25: the certainty of every constraint is 0.6*sim + 0.3*bm25 + 0.1 of its
\* chunk, a missing component counting 0, raised to 0.2 when below and
\* lowered to 1.0 when above (in hundredths)
C25_CertaintyClamped ==
    \A i \in 1..Len(constraints) :
        LET c   == constraints[i]
            ch  == ret.chunks[c.refs[1]]
            sim == IF ch.sim = Null THEN 0 ELSE ch.sim
            bm  == IF ch.bm25 = Null THEN 0 ELSE ch.bm25
            sum == 6 * sim + 3 * bm + 10
        IN  /\ c.certainty >= 20
            /\ c.certainty <= 100
            /\ c.certainty = IF sum < 20 THEN 20 ELSE IF sum > 100 THEN 100 ELSE sum

\* a constraint from a chunk of similarity -1.0 without lexical rank has
\* certainty 0.2 and one from a chunk with lexical rank 4.0 has certainty 1.0
C25_FloorAndCeiling ==
    /\ ypc = "done"
    /\ \E i \in 1..Len(constraints) :
          /\ ret.chunks[constraints[i].refs[1]].bm25 = Null
          /\ ret.chunks[constraints[i].refs[1]].sim < 0
          /\ constraints[i].certainty = 20
    /\ \E i \in 1..Len(constraints) :
          /\ ret.chunks[constraints[i].refs[1]].bm25 = 40
          /\ constraints[i].certainty = 100

\* C26: before truncation the constraint list holds exactly one constraint
\* for each distinct (type, source_policy, clause) among the ranked chunks,
\* made from the first chunk of that key, in the order of the chunks
C26_OnePerKey ==
    LET key(ch) == <<_classify_constraint(ch.text), ch.policy_id, ch.para_ref>>
        firsts  == { i \in 1..Len(ret.chunks) :
                       \A j \in 1..(i - 1) : key(ret.chunks[j]) # key(ret.chunks[i]) }
    IN  /\ Len(constraints) = Cardinality(firsts)
        /\ \A n \in 1..Len(constraints) : constraints[n].refs[1] \in firsts
        /\ \A m, n \in 1..Len(constraints) :
              m < n => constraints[m].refs[1] < constraints[n].refs[1]

\* C27: the response holds the first top_k constraints of the de-duplicated
\* list, in its order: min(top_k, length of that list) of them
C27_TruncatedAfterDedup ==
    synresponse.kind = "ok" =>
        LET n == IF synreq.top_k < Len(constraints) THEN synreq.top_k ELSE Len(constraints)
        IN  /\ Len(synresponse.constraints) = n
            /\ \A i \in 1..n : synresponse.constraints[i] = constraints[i]

\* retrieve returned top_k = 2 chunks of one key and the response holds the
\* one constraint left after de-duplication
C27_FewerThanTopK ==
    /\ ypc = "done"
    /\ synreq.top_k = 2
    /\ Len(ret.chunks) = 2
    /\ Len(constraints) = 1
    /\ synresponse.constraints = constraints
====
